---- MODULE Spec2Model ----
(***************************************************************************)
(* Model of build-docker-image.py: main() resolves its configuration from  *)
(* the environment and then issues external commands one after another     *)
(* (docker login, docker pull, jupyter-repo2docker, docker run, docker     *)
(* push, docker tag).  Every subprocess.run call is one step; the exit     *)
(* status of the external tool is a nondeterministic input of that step.   *)
(* The variable cmds is the history of the commands issued so far.         *)
(***************************************************************************)
EXTENDS Integers, Sequences, FiniteSets, TLC

VARIABLES
    environ,        \* os.environ: variable name -> string, or None when not set
    files,          \* paths that exist on disk (the appendix file, image-tests/)
    pc,             \* position of main(): the step to execute next
    plan,           \* the locals main() derives in lines 97-133
    cmds,           \* the external commands issued so far, in order
    test_trace,     \* what the shell ran inside the container (run_image_tests)
    pending,        \* the part of additional_tags the for loop has not reached
    error           \* the exception that ended the run ("" when none)

vars == <<environ, files, pc, plan, cmds, test_trace, pending, error>>

(***************************************************************************)
(* Python values                                                           *)
(***************************************************************************)

\* Python's None.  Strings are TLA+ strings; no string of the model's input
\* domains equals this token.
None == "<None>"

\* Truth value of an optional string: None and '' are false.
Truthy(v) == v # None /\ v # ""

Range(s) == {s[i] : i \in 1..Len(s)}

UpperAlpha == "ABCDEFGHIJKLMNOPQRSTUVWXYZ"
LowerAlpha == "abcdefghijklmnopqrstuvwxyz"

LowerChar(c) ==
    LET hits == {i \in 1..Len(UpperAlpha) : SubSeq(UpperAlpha, i, i) = c}
    IN  IF hits = {} THEN c
        ELSE LET i == CHOOSE j \in hits : TRUE IN SubSeq(LowerAlpha, i, i)

\* str.lower()
RECURSIVE Lower(_)
Lower(s) == IF s = "" THEN "" ELSE LowerChar(Head(s)) \o Lower(Tail(s))

\* s.split('/')[-1]: what follows the last '/', the whole string when none.
LastSegment(s) ==
    LET slashes == {i \in 1..Len(s) : SubSeq(s, i, i) = "/"}
    IN  IF slashes = {} THEN s
        ELSE LET last == CHOOSE i \in slashes : \A j \in slashes : j <= i
             IN  SubSeq(s, last + 1, Len(s))

\* The slice s[:n].
Take(s, n) == IF Len(s) <= n THEN s ELSE SubSeq(s, 1, n)

IsPrefix(p, s) == Len(p) <= Len(s) /\ SubSeq(s, 1, Len(p)) = p

(***************************************************************************)
(* Inputs                                                                  *)
(***************************************************************************)

\* Length of the longest commit identifier tried.
MaxShaLen == 14

\* Number of characters of the commit identifier kept as the tag.
ShaLen == 12

CommitId == "abcdef1234567890abcdef1234567890abcdef12"

ShaValues == {None} \cup {Take(CommitId, n) : n \in {3, ShaLen - 1, ShaLen, MaxShaLen}}

\* An option is absent, empty, or one of the given values.
Opt(S) == {None, ""} \cup S

Names == {"GITHUB_REPOSITORY", "GITHUB_ACTOR", "GITHUB_SHA",
          "INPUT_APPENDIX_FILE", "INPUT_IMAGE_NAME", "INPUT_DOCKER_USERNAME",
          "INPUT_DOCKER_PASSWORD", "INPUT_DOCKER_REGISTRY", "INPUT_NOTEBOOK_USER",
          "INPUT_MYBINDERORG_TAG", "INPUT_BINDER_CACHE", "INPUT_REPO_DIR",
          "INPUT_NO_PUSH", "INPUT_LATEST_TAG_OFF", "INPUT_ADDITIONAL_TAG"}

\* A plain CI run: the three platform variables and no option.
BaseEnv ==
    [n \in Names |->
        CASE n = "GITHUB_REPOSITORY" -> "Octocat/Hello-World"
          [] n = "GITHUB_ACTOR"      -> "Octocat"
          [] n = "GITHUB_SHA"        -> Take(CommitId, MaxShaLen)
          [] OTHER                   -> None]

\* BaseEnv with the variables of r set as r says.
With(r) == [n \in Names |-> IF n \in DOMAIN r THEN r[n] ELSE BaseEnv[n]]

AppendixPath == "appendix.txt"
TestsDir == "image-tests"

\* Configurations that vary everything the image name and tag are derived from.
NamingConfigs ==
    {[environ |-> With(r), files |-> {AppendixPath}] :
        r \in [GITHUB_REPOSITORY : {None, "Octocat/Hello-World"},
               GITHUB_ACTOR : {None, "Octocat"},
               GITHUB_SHA : ShaValues,
               INPUT_IMAGE_NAME : Opt({"My/Img"}),
               INPUT_DOCKER_USERNAME : Opt({"Bob"}),
               INPUT_DOCKER_REGISTRY : Opt({"GHCR.io", "quay.io"})]}

\* Configurations that vary the notebook user, the repository directory and
\* the appendix; nothing is pushed.
UserConfigs ==
    {[environ |-> With(r), files |-> f] :
        r \in [INPUT_NOTEBOOK_USER : Opt({"alice"}),
               INPUT_MYBINDERORG_TAG : Opt({"2024"}),
               INPUT_BINDER_CACHE : Opt({"true"}),
               INPUT_REPO_DIR : Opt({"/srv/repo"}),
               INPUT_APPENDIX_FILE : Opt({AppendixPath}),
               INPUT_NO_PUSH : {"1"}],
        f \in {{}, {AppendixPath}, {AppendixPath, TestsDir}}}

\* Configurations that vary everything login, test and push depend on.
PublishConfigs ==
    {[environ |-> With(r), files |-> f] :
        r \in [INPUT_NO_PUSH : Opt({"1"}),
               INPUT_DOCKER_USERNAME : Opt({"Bob"}),
               INPUT_DOCKER_PASSWORD : Opt({"s3cret"}),
               INPUT_DOCKER_REGISTRY : Opt({"GHCR.io"}),
               INPUT_LATEST_TAG_OFF : Opt({"true"}),
               INPUT_ADDITIONAL_TAG : Opt({"v2"})],
        f \in {{}, {TestsDir}}}

Configs == NamingConfigs \cup UserConfigs \cup PublishConfigs

(***************************************************************************)
(* Configuration (main, lines 97-133)                                      *)
(***************************************************************************)

\* os.environ.get(f'INPUT_{input_name}', default)
get_input(input_name, default) ==
    LET v == environ["INPUT_" \o input_name]
    IN  IF v = None THEN default ELSE v

\* Content of the appendix file.
AppendixText == "RUN echo appendix"

appendix ==
    IF Truthy(get_input("APPENDIX_FILE", None)) THEN AppendixText ELSE None

repo_name == LastSegment(environ["GITHUB_REPOSITORY"])

\* A variant in which an explicit IMAGE_NAME is not given the registry prefix.
image_name_unprefixed ==
    IF Truthy(get_input("IMAGE_NAME", None))
    THEN Lower(get_input("IMAGE_NAME", None))
    ELSE LET base ==
                 IF get_input("DOCKER_USERNAME", None) = None
                 THEN environ["GITHUB_ACTOR"] \o "/" \o repo_name
                 ELSE get_input("DOCKER_USERNAME", None) \o "/" \o repo_name
         IN  IF Truthy(get_input("DOCKER_REGISTRY", None))
             THEN Lower(get_input("DOCKER_REGISTRY", None) \o "/" \o base)
             ELSE Lower(base)

image_name ==
    LET base ==
            IF Truthy(get_input("IMAGE_NAME", None))
            THEN get_input("IMAGE_NAME", None)
            ELSE IF get_input("DOCKER_USERNAME", None) = None
                 THEN environ["GITHUB_ACTOR"] \o "/" \o repo_name
                 ELSE get_input("DOCKER_USERNAME", None) \o "/" \o repo_name
        prefixed ==
            IF Truthy(get_input("DOCKER_REGISTRY", None))
            THEN get_input("DOCKER_REGISTRY", None) \o "/" \o base
            ELSE base
    IN  Lower(prefixed)

\* A variant that forgets BINDER_CACHE.
notebook_user_no_cache ==
    IF \/ ~Truthy(get_input("NOTEBOOK_USER", None))
       \/ Truthy(get_input("MYBINDERORG_TAG", None))
    THEN "jovyan"
    ELSE get_input("NOTEBOOK_USER", None)

notebook_user ==
    IF \/ ~Truthy(get_input("NOTEBOOK_USER", None))
       \/ Truthy(get_input("MYBINDERORG_TAG", None))
       \/ Truthy(get_input("BINDER_CACHE", None))
    THEN "jovyan"
    ELSE get_input("NOTEBOOK_USER", None)

repo_dir == get_input("REPO_DIR", "/home/" \o notebook_user)

\* A variant that keeps the whole commit identifier.
sha_untruncated == environ["GITHUB_SHA"]

sha == Take(environ["GITHUB_SHA"], ShaLen)

full_image_name == image_name \o ":" \o sha

\* A variant that pushes whatever NO_PUSH says.
push_always == TRUE

push == ~Truthy(get_input("NO_PUSH", None))

\* The exception lines 97-133 raise, "" when they raise none.  The checks are
\* in the order of the code.
ConfigError ==
    IF Truthy(get_input("APPENDIX_FILE", None))
       /\ get_input("APPENDIX_FILE", None) \notin files
    THEN "FileNotFoundError"
    ELSE IF environ["GITHUB_REPOSITORY"] = None THEN "KeyError"
    ELSE IF /\ ~Truthy(get_input("IMAGE_NAME", None))
            /\ get_input("DOCKER_USERNAME", None) = None
            /\ environ["GITHUB_ACTOR"] = None
         THEN "KeyError"
    ELSE IF environ["GITHUB_SHA"] = None THEN "KeyError"
    ELSE ""

\* os.getcwd()
src_dir == "/github/workspace"

NoPlan ==
    [resolved |-> FALSE, appendix |-> None, image_name |-> None,
     notebook_user |-> None, repo_dir |-> None, full_image_name |-> None,
     push |-> FALSE, src_dir |-> None]

ResolvedPlan ==
    [resolved |-> TRUE, appendix |-> appendix, image_name |-> image_name,
     notebook_user |-> notebook_user, repo_dir |-> repo_dir,
     full_image_name |-> full_image_name, push |-> push, src_dir |-> src_dir]

(***************************************************************************)
(* External commands                                                       *)
(***************************************************************************)

\* Exit statuses an external tool may return: success, failure.
ExitCodes == {0, 1}

\* One subprocess.run call: the argument list, the input= keyword (None when
\* not given), the check= keyword and the child's return code.
Cmd(argv, input, check, rc) ==
    [argv |-> argv, input |-> input, check |-> check, rc |-> rc]

\* subprocess.run(argv, check=check) returning rc: the command is issued; with
\* check=True a non-zero status raises CalledProcessError, which nothing
\* catches, so the run ends; otherwise main() goes on at `next`.
subprocess_run(argv, check, rc, next) ==
    /\ cmds' = Append(cmds, Cmd(argv, None, check, rc))
    /\ IF check /\ rc # 0
       THEN pc' = "failed" /\ error' = "CalledProcessError"
       ELSE pc' = next /\ UNCHANGED error

\* A variant that passes the password on the command line.
docker_login_argv_password(registry, username, password) ==
    <<"docker", "login", registry, "-u", username, "-p", password>>

docker_login_argv(registry, username, password) ==
    <<"docker", "login", registry, "-u", username, "--password-stdin">>

docker_pull_argv(name) == <<"docker", "pull", name>>

\* A variant of docker_pull that raises when the pull fails.
docker_pull_check_strict == TRUE

\* check=False of docker_pull
docker_pull_check == FALSE

run_r2d_argv(nb_user, dir, name, cache_from, appendix_text, src) ==
    <<"jupyter-repo2docker", "--no-run", "--user-id", "1000",
      "--user-name", nb_user, "--target-repo-dir", dir,
      "--image-name", name, "--cache-from", cache_from>>
    \o (IF Truthy(appendix_text) THEN <<"--appendix", appendix_text>> ELSE <<>>)
    \o <<src>>

TestsScript == "tests_script"

run_image_tests_argv(dir, name) ==
    <<"docker", "run", "-u", "1000", "-w", dir, name, "/bin/bash", "-c", TestsScript>>

\* A variant of run_image_tests that ignores the exit status.
run_image_tests_check_lax == FALSE

\* check=True of run_image_tests
run_image_tests_check == TRUE

docker_push_argv(name) == <<"docker", "push", name>>

docker_tag_argv(name, alias) == <<"docker", "tag", name, alias>>

\* A variant in which the push of an additional tag raises on failure.
additional_push_check_strict == TRUE

\* The push of an additional tag passes no check=, which defaults to False.
additional_push_check == FALSE

\* A variant that puts ADDITIONAL_TAG before latest.
additional_tags_reversed ==
    (IF Truthy(get_input("ADDITIONAL_TAG", None))
     THEN <<get_input("ADDITIONAL_TAG", None)>> ELSE <<>>)
    \o (IF ~Truthy(get_input("LATEST_TAG_OFF", None)) THEN <<"latest">> ELSE <<>>)

additional_tags ==
    (IF ~Truthy(get_input("LATEST_TAG_OFF", None)) THEN <<"latest">> ELSE <<>>)
    \o (IF Truthy(get_input("ADDITIONAL_TAG", None))
        THEN <<get_input("ADDITIONAL_TAG", None)>> ELSE <<>>)

(***************************************************************************)
(* The shell procedure of run_image_tests (lines 59-82)                    *)
(***************************************************************************)

\* The four and-or lists of tests_script, separated by ';'.  In the shell
\* && and || have equal precedence and associate to the left.
TestsScriptLists ==
    << << [op |-> "",   cmd |-> "[ -f image-tests/requirements.txt ]"],
          [op |-> "&&", cmd |-> "echo Installing from requirements"],
          [op |-> "&&", cmd |-> "pip install -r image-tests/requirements.txt"] >>,
       << [op |-> "",   cmd |-> "which py.test"],
          [op |-> "||", cmd |-> "echo Installing pytest"],
          [op |-> "&&", cmd |-> "pip install pytest"] >>,
       << [op |-> "",   cmd |-> "ls image-tests/*.ipynb"],
          [op |-> "&&", cmd |-> "echo Found notebooks"],
          [op |-> "&&", cmd |-> "export PYTEST_FLAGS"],
          [op |-> "&&", cmd |-> "python3 -c import pytest_notebook"],
          [op |-> "||", cmd |-> "pip install pytest-notebook"] >>,
       << [op |-> "",   cmd |-> "py.test"] >> >>

\* The installation steps of the procedure.
InstallSteps ==
    {"pip install -r image-tests/requirements.txt", "pip install pytest",
     "pip install pytest-notebook"}

\* The commands of the procedure whose exit status the image decides; echo
\* and export return 0.
ScriptTools ==
    {"[ -f image-tests/requirements.txt ]", "which py.test",
     "ls image-tests/*.ipynb", "python3 -c import pytest_notebook", "py.test"}
    \cup InstallSteps

StatusOf(oracle, cmd) == IF cmd \in DOMAIN oracle THEN oracle[cmd] ELSE 0

\* Commands of one and-or list the shell executes from position i on, with
\* their exit statuses; st is the status of the last command executed.
RECURSIVE AndOr(_, _, _, _)
AndOr(list, i, st, oracle) ==
    IF i > Len(list) THEN <<>>
    ELSE LET runs == \/ list[i].op = ""
                     \/ list[i].op = "&&" /\ st = 0
                     \/ list[i].op = "||" /\ st # 0
             rc == StatusOf(oracle, list[i].cmd)
         IN  IF runs
             THEN <<[cmd |-> list[i].cmd, rc |-> rc]>> \o AndOr(list, i + 1, rc, oracle)
             ELSE AndOr(list, i + 1, st, oracle)

\* Everything the script executes, list after list.
RECURSIVE RunLists(_, _, _)
RunLists(lists, k, oracle) ==
    IF k > Len(lists) THEN <<>>
    ELSE AndOr(lists[k], 1, 0, oracle) \o RunLists(lists, k + 1, oracle)

\* Exit status of bash -c: that of the last command executed.
ScriptStatus(trace) == trace[Len(trace)].rc

(***************************************************************************)
(* main()                                                                  *)
(***************************************************************************)

Init ==
    /\ \E c \in Configs : environ = c.environ /\ files = c.files
    /\ pc = "start"
    /\ plan = NoPlan
    /\ cmds = <<>>
    /\ test_trace = <<>>
    /\ pending = <<>>
    /\ error = ""

\* Lines 97-133: derive the build plan, or raise.
ResolveConfig ==
    /\ pc = "start"
    /\ IF ConfigError # ""
       THEN pc' = "failed" /\ error' = ConfigError /\ UNCHANGED plan
       ELSE pc' = "login" /\ plan' = ResolvedPlan /\ UNCHANGED error
    /\ UNCHANGED <<environ, files, cmds, test_trace, pending>>

\* Lines 135-137 and docker_login.  The password is a str and the call gives
\* neither text= nor an encoding, so the child's stdin is a binary pipe:
\* Popen starts docker login, then writing the str raises TypeError, run()
\* kills the child (return code -9) and re-raises.  With DOCKER_REGISTRY not
\* set the argument list holds None and Popen raises TypeError before any
\* child is started.
Login ==
    /\ pc = "login"
    /\ IF /\ plan.push
          /\ Truthy(get_input("DOCKER_PASSWORD", None))
          /\ Truthy(get_input("DOCKER_USERNAME", None))
       THEN /\ pc' = "failed"
            /\ error' = "TypeError"
            /\ IF get_input("DOCKER_REGISTRY", None) = None
               THEN UNCHANGED cmds
               ELSE cmds' = Append(cmds,
                        Cmd(docker_login_argv(get_input("DOCKER_REGISTRY", None),
                                              get_input("DOCKER_USERNAME", None),
                                              get_input("DOCKER_PASSWORD", None)),
                            get_input("DOCKER_PASSWORD", None), TRUE, -9))
       ELSE pc' = "pull" /\ UNCHANGED <<cmds, error>>
    /\ UNCHANGED <<environ, files, plan, test_trace, pending>>

\* Line 139 and docker_pull.
Pull ==
    /\ pc = "pull"
    /\ \E rc \in ExitCodes :
          subprocess_run(docker_pull_argv(plan.full_image_name),
                         docker_pull_check, rc, "build")
    /\ UNCHANGED <<environ, files, plan, test_trace, pending>>

\* Lines 141-143 and run_r2d.
Build ==
    /\ pc = "build"
    /\ \E rc \in ExitCodes :
          subprocess_run(run_r2d_argv(plan.notebook_user, plan.repo_dir,
                                      plan.full_image_name, plan.image_name,
                                      plan.appendix, plan.src_dir),
                         TRUE, rc, "test")
    /\ UNCHANGED <<environ, files, plan, test_trace, pending>>

\* Lines 145-148 and run_image_tests.
Test ==
    /\ pc = "test"
    /\ IF TestsDir \in files
       THEN \E oracle \in [ScriptTools -> ExitCodes], started \in BOOLEAN :
              LET trace == IF started THEN RunLists(TestsScriptLists, 1, oracle)
                           ELSE <<>>
                  \* docker run itself exits 125 when it cannot start the container
                  rc == IF started THEN ScriptStatus(trace) ELSE 125
              IN  /\ test_trace' = trace
                  /\ subprocess_run(run_image_tests_argv(plan.repo_dir,
                                                         plan.full_image_name),
                                    run_image_tests_check, rc, "push")
       ELSE pc' = "push" /\ UNCHANGED <<cmds, error, test_trace>>
    /\ UNCHANGED <<environ, files, plan, pending>>

\* Lines 150-163: the primary push and the list of additional tags.
Push ==
    /\ pc = "push"
    /\ IF plan.push
       THEN \E rc \in ExitCodes :
              /\ subprocess_run(docker_push_argv(plan.full_image_name), TRUE, rc,
                                IF additional_tags = <<>> THEN "done" ELSE "tag")
              /\ pending' = IF rc = 0 THEN additional_tags ELSE pending
       ELSE pc' = "done" /\ UNCHANGED <<cmds, error, pending>>
    /\ UNCHANGED <<environ, files, plan, test_trace>>

\* Lines 165-168: alias the image under the next additional tag.
Tag ==
    /\ pc = "tag"
    /\ \E rc \in ExitCodes :
          subprocess_run(docker_tag_argv(plan.full_image_name,
                                         plan.image_name \o ":" \o Head(pending)),
                         TRUE, rc, "tag_push")
    /\ UNCHANGED <<environ, files, plan, test_trace, pending>>

\* Lines 169-171: push the alias, then the next round of the loop.
PushTag ==
    /\ pc = "tag_push"
    /\ \E rc \in ExitCodes :
          subprocess_run(docker_push_argv(plan.image_name \o ":" \o Head(pending)),
                         additional_push_check, rc,
                         IF Tail(pending) = <<>> THEN "done" ELSE "tag")
    /\ pending' = Tail(pending)
    /\ UNCHANGED <<environ, files, plan, test_trace>>

Next ==
    \/ ResolveConfig
    \/ Login
    \/ Pull
    \/ Build
    \/ Test
    \/ Push
    \/ Tag
    \/ PushTag

Spec == Init /\ [][Next]_vars

(***************************************************************************)
(* Vocabulary of the properties                                            *)
(***************************************************************************)

\* The step a command belongs to: login, pull, build, run (the image tests),
\* push or tag.
Kind(c) == IF c.argv[1] = "jupyter-repo2docker" THEN "build" ELSE c.argv[2]

Issued(k) == {i \in 1..Len(cmds) : Kind(cmds[i]) = k}

IsLast(i) == i = Len(cmds)

Terminated == pc \in {"done", "failed"}

Min(S) == CHOOSE i \in S : \A j \in S : i <= j

\* Position of the primary push, the first push of the run.
PrimaryPush == Min(Issued("push"))

\* The commands that follow the primary push.
AfterPrimary == SubSeq(cmds, PrimaryPush + 1, Len(cmds))

\* Entries of the in-image procedure that ran cmd.
Ran(cmd) == {k \in 1..Len(test_trace) : test_trace[k].cmd = cmd}

FailedIn(S) == \E k \in 1..Len(test_trace) :
                   test_trace[k].cmd \in S /\ test_trace[k].rc # 0

(***************************************************************************)
(* C1                                                                      *)
(***************************************************************************)

\* Position of each step in the order the specification gives.
SpecRank(k) ==
    CASE k = "pull" -> 1 [] k = "login" -> 2 [] k = "build" -> 3
      [] k = "run" -> 4 [] OTHER -> 5

\* Position of each step in the order of main().
CodeRank(k) ==
    CASE k = "login" -> 1 [] k = "pull" -> 2 [] k = "build" -> 3
      [] k = "run" -> 4 [] OTHER -> 5

\* A login, build or test command that did not succeed is the last command
\* of the run, and the run has failed; a pull, whatever its status, leaves
\* the run going towards the build.
Gating ==
    /\ \A i \in 1..Len(cmds) :
          /\ Kind(cmds[i]) \in {"login", "build", "run"} /\ cmds[i].rc # 0
             => IsLast(i) /\ pc = "failed"
          /\ Kind(cmds[i]) = "pull" /\ IsLast(i) => pc = "build"
    /\ \A k \in {"login", "pull", "build", "run"} : Cardinality(Issued(k)) <= 1

\* C1 as stated: the steps occur in the order pull, login, build, test, push,
\* no login is issued before the pull, each step waits for the success of
\* the previous one except that a failed pull is ignored.
C1_PullBeforeLogin ==
    /\ \A i, j \in 1..Len(cmds) :
          i < j => SpecRank(Kind(cmds[i])) <= SpecRank(Kind(cmds[j]))
    /\ \A i \in Issued("login") : \E j \in Issued("pull") : j < i
    /\ Gating

\* C1, amended: the steps occur in the order login, pull, build, test, push:
\* the pull is issued only once the login step is over, and never after a
\* login that did not succeed; each step waits for the success of the
\* previous one except that a failed pull is ignored.
C1_LoginBeforePull ==
    /\ \A i, j \in 1..Len(cmds) :
          i < j => CodeRank(Kind(cmds[i])) <= CodeRank(Kind(cmds[j]))
    /\ \A i \in Issued("pull") : \A j \in Issued("login") : j < i /\ cmds[j].rc = 0
    /\ Gating

\* A finished run in which the pull failed and build, test and push followed.
C1_Witness ==
    /\ pc = "done"
    /\ Len(cmds) >= 4
    /\ Kind(cmds[1]) = "pull" /\ cmds[1].rc # 0
    /\ Kind(cmds[2]) = "build"
    /\ Kind(cmds[3]) = "run"
    /\ Kind(cmds[4]) = "push"

(***************************************************************************)
(* C2                                                                      *)
(***************************************************************************)

BuildSucceeded == \E i \in Issued("build") : cmds[i].rc = 0

TestsSucceeded == \E i \in Issued("run") : cmds[i].rc = 0

\* C2: with NO_PUSH non-empty no login, push or tag command is ever issued,
\* and once the build and the tests (when there are any) have succeeded the
\* run does not fail: it ends with exit status 0.
C2_NoPush ==
    Truthy(environ["INPUT_NO_PUSH"]) =>
        /\ Issued("login") = {} /\ Issued("push") = {} /\ Issued("tag") = {}
        /\ pc \notin {"tag", "tag_push"}
        /\ BuildSucceeded /\ (TestsDir \in files => TestsSucceeded)
           => pc \in {"test", "push", "done"} /\ error = ""
        /\ BuildSucceeded /\ (TestsDir \in files => TestsSucceeded) /\ Terminated
           => pc = "done"

\* NO_PUSH set next to credentials and an additional tag; build and tests
\* have succeeded and the run has ended.
C2_Witness ==
    /\ Truthy(environ["INPUT_NO_PUSH"])
    /\ Truthy(environ["INPUT_DOCKER_USERNAME"])
    /\ Truthy(environ["INPUT_DOCKER_PASSWORD"])
    /\ Truthy(environ["INPUT_ADDITIONAL_TAG"])
    /\ environ["INPUT_LATEST_TAG_OFF"] = None
    /\ BuildSucceeded /\ TestsSucceeded
    /\ pc = "done"

(***************************************************************************)
(* C3                                                                      *)
(***************************************************************************)

\* When image-tests is absent no test command is issued and nothing runs in
\* the image, so a failed run did not fail in the test step.
TestsSkippedWhenAbsent ==
    TestsDir \notin files => Issued("run") = {} /\ test_trace = <<>>

\* The test step has failed: the run ended there, before any push or tag.
TestStepFailed ==
    /\ pc = "failed"
    /\ error = "CalledProcessError"
    /\ Issued("run") # {} /\ \A i \in Issued("run") : IsLast(i)
    /\ Issued("push") = {} /\ Issued("tag") = {}

\* C3 as stated: a non-zero exit of the test runner or of any installation
\* step of the procedure makes the test step fail.
C3_AnyStepFatal ==
    /\ FailedIn({"py.test"} \cup InstallSteps) => TestStepFailed
    /\ TestsSkippedWhenAbsent

\* C3, amended: a non-zero exit of the test runner makes the test step fail,
\* and so does a docker run that cannot start; the status of the test step
\* is the status of the test runner, whatever the installation steps
\* returned.
C3_RunnerFatal ==
    /\ FailedIn({"py.test"}) => TestStepFailed
    /\ \A i \in Issued("run") :
          /\ cmds[i].rc # 0 => TestStepFailed
          /\ test_trace # <<>> =>
                /\ test_trace[Len(test_trace)].cmd = "py.test"
                /\ cmds[i].rc = test_trace[Len(test_trace)].rc
    /\ TestsSkippedWhenAbsent

\* The test runner failed after every installation step succeeded.
C3_Witness ==
    /\ FailedIn({"py.test"})
    /\ ~FailedIn(InstallSteps)
    /\ Ran("pip install -r image-tests/requirements.txt") # {}
    /\ pc = "failed"

(***************************************************************************)
(* C4                                                                      *)
(***************************************************************************)

\* Pushes of additional tags: every push but the primary one.
AdditionalPushes == Issued("push") \ {PrimaryPush}

\* C4: a failed docker tag ends the run at once with a failure; a failed
\* push of an additional tag does not end the run, the loop goes on to the
\* remaining tags and the run exits 0 unless a tag creation fails; a failed
\* primary push ends the run before any additional tag is created.
C4_TagLoop ==
    /\ \A i \in Issued("tag") : cmds[i].rc # 0 => IsLast(i) /\ pc = "failed"
    /\ \A i \in Issued("push") :
          i # PrimaryPush /\ IsLast(i) =>
              /\ pc = IF pending = <<>> THEN "done" ELSE "tag"
              /\ error = ""
    /\ Issued("push") # {} /\ cmds[PrimaryPush].rc # 0 =>
          IsLast(PrimaryPush) /\ pc = "failed" /\ Issued("tag") = {}
    /\ Issued("push") # {} /\ Terminated /\ cmds[PrimaryPush].rc = 0
         /\ (\A i \in Issued("tag") : cmds[i].rc = 0)
       => /\ pc = "done"
          /\ Cardinality(Issued("tag")) = Len(additional_tags)
          /\ Cardinality(AdditionalPushes) = Len(additional_tags)

\* The push of the first additional tag failed, the second tag was created
\* and pushed all the same, and the run ended with exit status 0.
C4_Witness ==
    /\ pc = "done"
    /\ \E i \in Issued("push") : \E j \in Issued("tag") :
          i # PrimaryPush /\ cmds[i].rc # 0 /\ i < j

(***************************************************************************)
(* C5                                                                      *)
(***************************************************************************)

\* The additional tags the options ask for.
ExpectedTags ==
    (IF environ["INPUT_LATEST_TAG_OFF"] \in {None, ""} THEN <<"latest">> ELSE <<>>)
    \o (IF environ["INPUT_ADDITIONAL_TAG"] \notin {None, ""}
        THEN <<environ["INPUT_ADDITIONAL_TAG"]>> ELSE <<>>)

\* For each expected tag: the alias is created, then pushed.
ExpectedPublish ==
    [n \in 1..(2 * Len(ExpectedTags)) |->
        LET alias == plan.image_name \o ":" \o ExpectedTags[(n + 1) \div 2]
        IN  IF n % 2 = 1
            THEN <<"docker", "tag", plan.full_image_name, alias>>
            ELSE <<"docker", "push", alias>>]

\* C5: after a successful primary push the additional tags are latest (unless
\* LATEST_TAG_OFF is non-empty) and then ADDITIONAL_TAG (when non-empty); for
\* each of them in that order the alias is created from full_image_name and
\* then pushed; nothing is tagged before the primary push has succeeded.
C5_AdditionalTags ==
    /\ Issued("tag") # {} => Issued("push") # {}
    /\ Issued("push") # {} =>
          /\ cmds[PrimaryPush].argv = <<"docker", "push", plan.full_image_name>>
          /\ \A i \in Issued("tag") : PrimaryPush < i /\ cmds[PrimaryPush].rc = 0
          /\ Len(AfterPrimary) <= Len(ExpectedPublish)
          /\ \A n \in 1..Len(AfterPrimary) : AfterPrimary[n].argv = ExpectedPublish[n]
          /\ pc = "done" => Len(AfterPrimary) = Len(ExpectedPublish)

\* ADDITIONAL_TAG=v2 with LATEST_TAG_OFF unset: latest then v2, both tagged
\* and pushed.
C5_Witness ==
    /\ pc = "done"
    /\ environ["INPUT_ADDITIONAL_TAG"] = "v2"
    /\ environ["INPUT_LATEST_TAG_OFF"] = None
    /\ Len(cmds) >= 4
    /\ cmds[Len(cmds) - 3].argv[4] = plan.image_name \o ":latest"
    /\ cmds[Len(cmds) - 1].argv[4] = plan.image_name \o ":v2"
    /\ cmds[Len(cmds)].argv = <<"docker", "push", plan.image_name \o ":v2">>

(***************************************************************************)
(* C6                                                                      *)
(***************************************************************************)

\* Push is enabled and both credentials are non-empty.
CredentialsGiven ==
    /\ environ["INPUT_NO_PUSH"] \in {None, ""}
    /\ environ["INPUT_DOCKER_USERNAME"] \notin {None, ""}
    /\ environ["INPUT_DOCKER_PASSWORD"] \notin {None, ""}

\* The login step is over.
PastLogin == pc \notin {"start", "login"} /\ (pc = "failed" => error \notin {"KeyError", "FileNotFoundError"})

\* C6: with push enabled and both credentials non-empty exactly one login is
\* performed before the build, whatever DOCKER_REGISTRY is, absent included;
\* a login that succeeds is followed by the rest of the run, one that fails
\* ends the run with a failure and nothing else is issued.  Without both
\* credentials no login is performed.
C6_LoginOnce ==
    /\ CredentialsGiven /\ PastLogin =>
          /\ Cardinality(Issued("login")) = 1
          /\ Kind(cmds[1]) = "login"
          /\ cmds[1].rc = 0 => ~(pc = "failed" /\ Len(cmds) = 1)
          /\ cmds[1].rc # 0 => pc = "failed" /\ Len(cmds) = 1
    /\ ~CredentialsGiven => Issued("login") = {}

(***************************************************************************)
(* C7                                                                      *)
(***************************************************************************)

\* C7: the value of DOCKER_PASSWORD is an element of no command's argument
\* list; the only command given any standard input is the login, and what
\* it is given is the password.  (A property of where the password flows:
\* the configurations give no other option the password's value.)
C7_PasswordNotInArgv ==
    \A i \in 1..Len(cmds) :
        /\ Truthy(environ["INPUT_DOCKER_PASSWORD"])
           => environ["INPUT_DOCKER_PASSWORD"] \notin Range(cmds[i].argv)
        /\ cmds[i].input # None
           => Kind(cmds[i]) = "login" /\ cmds[i].input = environ["INPUT_DOCKER_PASSWORD"]
        /\ Kind(cmds[i]) = "login" => cmds[i].input = environ["INPUT_DOCKER_PASSWORD"]

\* A login has been issued with the password as its input.
C7_Witness ==
    \E i \in Issued("login") :
        /\ cmds[i].input = "s3cret"
        /\ cmds[i].argv = <<"docker", "login", "GHCR.io", "-u", "Bob", "--password-stdin">>

(***************************************************************************)
(* C8                                                                      *)
(***************************************************************************)

\* C8 as stated: with DOCKER_REGISTRY set, in any casing, the image name
\* starts with the given registry value followed by '/'.
C8_RegistryPrefixVerbatim ==
    plan.resolved /\ Truthy(environ["INPUT_DOCKER_REGISTRY"]) =>
        IsPrefix(environ["INPUT_DOCKER_REGISTRY"] \o "/", plan.image_name)

\* C8, amended: with DOCKER_REGISTRY non-empty the image name starts with the
\* lowercased registry value followed by '/', in each naming branch; with
\* DOCKER_REGISTRY empty or absent nothing is prepended.
C8_RegistryPrefixLowercase ==
    plan.resolved =>
        LET registry == environ["INPUT_DOCKER_REGISTRY"]
            rest == IF Truthy(environ["INPUT_IMAGE_NAME"])
                    THEN Lower(environ["INPUT_IMAGE_NAME"])
                    ELSE IF environ["INPUT_DOCKER_USERNAME"] = None
                         THEN Lower(environ["GITHUB_ACTOR"]) \o "/hello-world"
                         ELSE Lower(environ["INPUT_DOCKER_USERNAME"]) \o "/hello-world"
        IN  /\ Truthy(registry) =>
                /\ IsPrefix(Lower(registry) \o "/", plan.image_name)
                /\ plan.image_name = Lower(registry) \o "/" \o rest
            /\ registry = "GHCR.io" => IsPrefix("ghcr.io/", plan.image_name)
            /\ ~Truthy(registry) => plan.image_name = rest

\* An explicit IMAGE_NAME under a registry given in mixed case.
C8_Witness ==
    /\ plan.resolved
    /\ environ["INPUT_DOCKER_REGISTRY"] = "GHCR.io"
    /\ environ["INPUT_IMAGE_NAME"] = "My/Img"
    /\ plan.image_name = "ghcr.io/my/img"

(***************************************************************************)
(* C9                                                                      *)
(***************************************************************************)

\* The tag of the commands' image reference is tag.
UsesTag(tag) ==
    /\ plan.full_image_name = plan.image_name \o ":" \o tag
    /\ \A i \in Issued("pull") : cmds[i].argv[3] = plan.image_name \o ":" \o tag
    /\ \A i \in Issued("build") : cmds[i].argv[10] = plan.image_name \o ":" \o tag

\* C9 as stated: a commit identifier that is absent or shorter than 12
\* characters fails the run before any external command, so whenever a
\* command is issued the tag is exactly the first 12 characters.
C9_ShortShaRejected ==
    /\ environ["GITHUB_SHA"] = None \/ Len(environ["GITHUB_SHA"]) < ShaLen
       => cmds = <<>>
    /\ cmds # <<>> =>
          /\ Len(environ["GITHUB_SHA"]) >= ShaLen
          /\ UsesTag(SubSeq(environ["GITHUB_SHA"], 1, ShaLen))

\* C9, amended: an absent commit identifier fails the run before any external
\* command; whenever a command is issued the tag is the first 12 characters
\* of the commit identifier, or all of it when it has fewer.
C9_ShaPrefix ==
    /\ environ["GITHUB_SHA"] = None
       => cmds = <<>> /\ pc \in {"start", "failed"} /\ ~plan.resolved
    /\ cmds # <<>> =>
          LET id == environ["GITHUB_SHA"]
          IN  IF Len(id) >= ShaLen
              THEN UsesTag(SubSeq(id, 1, ShaLen))
              ELSE UsesTag(id)

\* A command issued for a commit identifier longer than 12 characters.
C9_Witness ==
    /\ Issued("build") # {}
    /\ Len(environ["GITHUB_SHA"]) > ShaLen
    /\ UsesTag("abcdef123456")

(***************************************************************************)
(* C10                                                                     *)
(***************************************************************************)

\* The user and directory the builder and the test command are given.
PassedToTools(user, dir) ==
    /\ plan.notebook_user = user
    /\ plan.repo_dir = dir
    /\ \A i \in Issued("build") : cmds[i].argv[6] = user /\ cmds[i].argv[8] = dir
    /\ \A i \in Issued("run") : cmds[i].argv[6] = dir

\* C10 as stated: jovyan whenever NOTEBOOK_USER is unset or empty, or
\* MYBINDERORG_TAG is set, or BINDER_CACHE is set; else NOTEBOOK_USER.  The
\* directory is REPO_DIR if given, else /home/{notebook_user}.
C10_JovyanWhenSet ==
    plan.resolved =>
        LET user == IF \/ environ["INPUT_NOTEBOOK_USER"] \in {None, ""}
                       \/ environ["INPUT_MYBINDERORG_TAG"] # None
                       \/ environ["INPUT_BINDER_CACHE"] # None
                    THEN "jovyan" ELSE environ["INPUT_NOTEBOOK_USER"]
            dir == IF environ["INPUT_REPO_DIR"] # None
                   THEN environ["INPUT_REPO_DIR"] ELSE "/home/" \o user
        IN  PassedToTools(user, dir)

\* C10, amended: jovyan whenever NOTEBOOK_USER is unset or empty, or
\* MYBINDERORG_TAG is non-empty, or BINDER_CACHE is non-empty; else
\* NOTEBOOK_USER.  The directory is REPO_DIR whenever that variable is
\* present, even empty, else /home/{notebook_user}.
C10_JovyanWhenNonEmpty ==
    plan.resolved =>
        LET user == IF \/ environ["INPUT_NOTEBOOK_USER"] \in {None, ""}
                       \/ environ["INPUT_MYBINDERORG_TAG"] \notin {None, ""}
                       \/ environ["INPUT_BINDER_CACHE"] \notin {None, ""}
                    THEN "jovyan" ELSE environ["INPUT_NOTEBOOK_USER"]
            dir == IF environ["INPUT_REPO_DIR"] # None
                   THEN environ["INPUT_REPO_DIR"] ELSE "/home/" \o user
        IN  PassedToTools(user, dir)

\* NOTEBOOK_USER given next to BINDER_CACHE, no REPO_DIR: the builder and the
\* test command work in /home/jovyan.
C10_Witness ==
    /\ environ["INPUT_NOTEBOOK_USER"] = "alice"
    /\ environ["INPUT_BINDER_CACHE"] = "true"
    /\ environ["INPUT_MYBINDERORG_TAG"] = None
    /\ environ["INPUT_REPO_DIR"] = None
    /\ \E i \in Issued("build") : cmds[i].argv[6] = "jovyan"
    /\ \E i \in Issued("run") : cmds[i].argv[6] = "/home/jovyan"

====
